---- MODULE Spec2Model ----
(***************************************************************************)
(* Model of the size-targeting search of sizefoto (src/src/App.tsx):       *)
(* processImage and the component state it reads and writes.               *)
(*                                                                         *)
(* One behaviour is one invocation of processImage from a state the        *)
(* component can be in (an image chosen, its preview loaded or still being *)
(* read, a result of an earlier run shown or not).  The code after the     *)
(* decode await is one synchronous task; it is split into one step per     *)
(* encode so that the canvas encoder, which is outside the repository, can *)
(* answer each call with any size.                                         *)
(*                                                                         *)
(* Numbers.  Qualities are fixed-point, in units of 1/QScale; the halving  *)
(* of the bisection rounds down at that resolution (the code's doubles     *)
(* round at 2^-53 relative).  The two scaleFactor accumulators are kept as *)
(* tenths together with the sign of the rounding error the repeated        *)
(* double additions leave, because the loop guards compare them with 3.0   *)
(* and 0.1; Math.floor(dim * scaleFactor) is the value IEEE doubles give   *)
(* for the image dimensions of ImageDims.                                  *)
(***************************************************************************)
EXTENDS Integers, FiniteSets, Sequences, TLC

VARIABLES
    \* component state (useState, lines 14-21)
    image, preview, minSize, maxSize, processedImage, processedSize, loading, error,
    \* the environment: the uploaded picture and the canvas encoder
    decodable, imgW, imgH, curve,
    \* files whose FileReader has not fired onload yet (lines 38-46), and the
    \* number of uploads and resets so far
    reading, uiEvents,
    \* processImage: position and locals (lines 73-107, 141-143, 189)
    pc, imgSrc, width, height, canvasW, canvasH, quality, minQuality, maxQuality,
    currentSize, dataUrl, attempts, originalDataUrl, originalSize, upScale, downScale,
    \* history of the invocation
    decodes, encodes, enlargedUrl, bisectExitSize, minSeen, realAllAbove

uiVars == <<image, preview, minSize, maxSize, processedImage, processedSize, loading, error>>
envVars == <<decodable, imgW, imgH, curve>>
localVars == <<width, height, canvasW, canvasH, quality, minQuality, maxQuality,
               currentSize, dataUrl, attempts, originalDataUrl, originalSize,
               upScale, downScale>>
histVars == <<decodes, encodes, enlargedUrl, bisectExitSize, minSeen, realAllAbove>>
vars == <<uiVars, envVars, reading, uiEvents, pc, imgSrc, localVars, histVars>>

----------------------------------------------------------------------------
\* Bounds of the model

\* Largest size, in KB, the modelled encoder returns for a non-empty canvas.
MaxKB == 5

\* Values the user can have typed into the two size fields.
SizeChoices == {2, 3}

\* Decoded dimensions of the uploaded picture.
ImageDims == {<<10, 10>>, <<1, 10>>}

\* Uploads and resets followed around one invocation of processImage.
MaxUiEvents == 1

----------------------------------------------------------------------------
\* Qualities

QScale == 1000 * (2 ^ 13)

QPerMille(m) == m * (QScale \div 1000)

Q1 == QScale

\* canvas.toDataURL ignores a quality outside [0, 1] and uses its default (0.92).
EffQ(q) == IF q < 0 \/ q > Q1 THEN QPerMille(920) ELSE q

maxAttempts == 20

StuckAfter == 10

----------------------------------------------------------------------------
\* Data URLs and their measured size

\* A data URL: which preview it was drawn from, the canvas it was encoded
\* from, the quality asked for, and the length n in bytes of the JPEG.
Url(i, w, h, q, n) == [img |-> i, w |-> w, h |-> h, q |-> q, n |-> n]

\* processedImage = null
NullUrl == Url(0, 0, 0, 0, 0 - 2)

\* let dataUrl = ""
EmptyString == Url(0, 0, 0, 0, 0 - 1)

\* processedSize = null
NoSize == 0 - 1

\* Length of the base64 text of n bytes (with padding).
Base64Len(n) == 4 * ((n + 2) \div 3)

\* Math.round((base64.length * 3) / 4 / 1024); Math.round rounds halves up.
calculateImageSize(url) == (3 * Base64Len(url.n) + 2048) \div 4096

\* Byte lengths the encoder may return for a non-empty canvas: whole KB, and
\* one length just under a rounding boundary.
ByteLens == {1024 * k : k \in 1..MaxKB} \cup {1535}

\* A monotone encoder at native dimensions: below t1 the small size, from t1
\* to below t2 the middle size, from t2 on the large one.
NoCurve == [t1 |-> 0 - 1, t2 |-> 0 - 1]

Curves == {[t1 |-> QPerMille(710), t2 |-> QPerMille(720)],
           [t1 |-> QPerMille(200), t2 |-> QPerMille(500)],
           [t1 |-> QPerMille(750), t2 |-> QPerMille(800)],
           [t1 |-> QPerMille(500), t2 |-> QPerMille(500)]}

CurveBytes(q) == IF q < curve.t1 THEN 1024
                 ELSE IF q < curve.t2 THEN 1535
                 ELSE 1024 * MaxKB

\* canvas.toDataURL("image/jpeg", q) on a w x h canvas: the byte lengths it
\* may return.  A canvas without pixels yields "data:," (no bytes).
EncodedBytes(w, h, q) ==
    IF w = 0 \/ h = 0 THEN {0}
    ELSE IF curve # NoCurve /\ w = imgW /\ h = imgH THEN {CurveBytes(EffQ(q))}
    ELSE ByteLens

----------------------------------------------------------------------------
\* The scaleFactor accumulators

\* A double reached by repeated addition: t tenths, e the sign of its
\* difference from the double nearest to t/10.
Scale(t, e) == [t |-> t, e |-> e]

\* Sign of the rounding error of 1.0 + 0.2 + ... + 0.2 and 0.9 - 0.1 - ... - 0.1.
SumErr == (12 :> 0 @@ 14 :> 0 @@ 16 :> 0 - 1 @@ 18 :> 0 - 1 @@ 20 :> 0 - 1 @@
           22 :> 0 - 1 @@ 24 :> 0 @@ 26 :> 0 @@ 28 :> 1 @@ 30 :> 1 @@ 32 :> 1 @@
           8 :> 0 @@ 7 :> 1 @@ 6 :> 1 @@ 5 :> 1 @@ 4 :> 1 @@ 3 :> 1 @@ 2 :> 1 @@
           1 :> 1 @@ 0 :> 1)

\* scaleFactor += 0.2
ScaleUp(s) == Scale(s.t + 2, SumErr[s.t + 2])

\* scaleFactor -= 0.1
ScaleDown(s) == Scale(s.t - 1, SumErr[s.t - 1])

\* scaleFactor < t/10 and scaleFactor > t/10 on the doubles
ScaleLt(s, t) == s.t < t \/ (s.t = t /\ s.e < 0)

ScaleGt(s, t) == s.t > t \/ (s.t = t /\ s.e > 0)

\* Math.floor(d * scaleFactor) as IEEE doubles give it, per dimension d.
FloorTable ==
    (1  :> (12 :> 1 @@ 14 :> 1 @@ 16 :> 1 @@ 18 :> 1 @@ 20 :> 1 @@ 22 :> 2 @@
            24 :> 2 @@ 26 :> 2 @@ 28 :> 2 @@ 30 :> 3 @@ 32 :> 3 @@
            8 :> 0 @@ 7 :> 0 @@ 6 :> 0 @@ 5 :> 0 @@ 4 :> 0 @@ 3 :> 0 @@ 2 :> 0 @@
            1 :> 0 @@ 0 :> 0) @@
     10 :> (12 :> 12 @@ 14 :> 14 @@ 16 :> 15 @@ 18 :> 18 @@ 20 :> 19 @@ 22 :> 21 @@
            24 :> 24 @@ 26 :> 26 @@ 28 :> 28 @@ 30 :> 30 @@ 32 :> 32 @@
            8 :> 8 @@ 7 :> 7 @@ 6 :> 6 @@ 5 :> 5 @@ 4 :> 4 @@ 3 :> 3 @@ 2 :> 2 @@
            1 :> 1 @@ 0 :> 0))

ScaledDim(d, s) == FloorTable[d][s.t]

\* Math.floor(d * 0.9)
ReducedDim(d) == (d * 9) \div 10

----------------------------------------------------------------------------
\* Conditions of processImage

\* !image || !preview (line 58)
NotUploaded(im, pv) == im = 0 \/ pv = 0

\* Faulty variant: a range with minSize = maxSize is let through.
RangeInvalidStrict(mn, mx) == mn > mx

\* minSize >= maxSize (line 63)
RangeInvalid(mn, mx) == mn >= mx

\* originalSize < minSize (line 105)
NeedsEnlarge(orig, mn) == orig < mn

\* Faulty variant: the enlargement bound is 3.2 instead of 3.0.
EnlargeContinueWide(cur, mn, s) == cur < mn /\ ScaleLt(s, 32)

\* currentSize < minSize && scaleFactor < 3.0 (line 108); the break of line
\* 117 leaves the loop exactly when the first conjunct fails
EnlargeContinue(cur, mn, s) == cur < mn /\ ScaleLt(s, 30)

\* Faulty variant: a baseline equal to maxSize is sent to the quality search.
NeedsReduceOrEqual(orig, mx) == orig >= mx

\* originalSize > maxSize (line 135)
NeedsReduce(orig, mx) == orig > mx

\* Faulty variant: the iteration cap is off by one.
BisectContinueOneMore(att) == att <= maxAttempts

\* attempts < maxAttempts (line 145)
BisectContinue(att) == att < maxAttempts

\* Faulty variant: a size equal to minSize does not end the search.
InRangeAboveMin(cur, mn, mx) == cur <= mx /\ cur > mn

\* currentSize <= maxSize && currentSize >= minSize (line 159)
InRange(cur, mn, mx) == cur <= mx /\ cur >= mn

\* minQuality = quality on a size below minSize (line 170)
LowAfter(small, q, lo) == IF small THEN q ELSE lo

\* Faulty variant: a size below minSize also reopens the upper bound.
HighAfterReopened(big, q, hi) == IF big THEN q ELSE 100 * QScale

\* maxQuality = quality on a size above maxSize (line 166)
HighAfter(big, q, hi) == IF big THEN q ELSE hi

\* the next quality (lines 167 and 171)
QualityAfter(big, small, q, lo, hi) ==
    IF big THEN (lo + q) \div 2
    ELSE IF small THEN (q + hi) \div 2
    ELSE q

\* Faulty variant: stuck detection starts one iteration early.
StuckEarly(att, cur, mx) == att >= StuckAfter /\ cur > mx

\* attempts > 10 && currentSize > maxSize (line 175)
Stuck(att, cur, mx) == att > StuckAfter /\ cur > mx

\* currentSize > maxSize && scaleFactor > 0.1 (line 190); the break of line
\* 205 leaves the loop exactly when the first conjunct fails
ShrinkContinue(cur, mx, s) == cur > mx /\ ScaleGt(s, 1)

\* Faulty variant: the else branch restores the data URL but not its size.
WithinRangeSizeStale(orig, cur) == cur

\* the size published by the else branch (line 213)
WithinRangeSize(orig, cur) == orig

\* Faulty variant: a size equal to minSize is reported as below it.
FeedbackInclusive(cur, mn, mx) == IF cur <= mn THEN "below_min"
                                  ELSE IF cur > mx THEN "above_max"
                                  ELSE "none"

\* the feedback of lines 221-229
Feedback(cur, mn, mx) == IF cur < mn THEN "below_min"
                         ELSE IF cur > mx THEN "above_max"
                         ELSE "none"

Min2(a, b) == IF a < b THEN a ELSE b

----------------------------------------------------------------------------
\* Initial states: an image has been chosen; its preview is loaded or not.

PriorUrl(w, h) == Url(1, w, h, QPerMille(700), 2048)

Init ==
    /\ image = 1
    /\ preview \in {0, 1}
    /\ reading = IF preview = 0 THEN {1} ELSE {}
    /\ uiEvents = 0
    /\ imgSrc = 0
    /\ minSize \in SizeChoices
    /\ maxSize \in SizeChoices
    /\ \E d \in ImageDims : imgW = d[1] /\ imgH = d[2]
    /\ \/ processedImage = NullUrl /\ processedSize = NoSize
       \/ /\ preview = 1
          /\ processedImage = PriorUrl(imgW, imgH)
          /\ processedSize = calculateImageSize(processedImage)
    /\ loading = FALSE
    /\ error = "none"
    /\ decodable \in BOOLEAN
    /\ curve \in Curves \cup {NoCurve}
    /\ pc = "idle"
    /\ width = 0 /\ height = 0 /\ canvasW = 0 /\ canvasH = 0
    /\ quality = 0 /\ minQuality = 0 /\ maxQuality = 0
    /\ currentSize = 0 /\ dataUrl = EmptyString /\ attempts = 0
    /\ originalDataUrl = EmptyString /\ originalSize = 0
    /\ upScale = Scale(10, 0) /\ downScale = Scale(9, 0)
    /\ decodes = 0 /\ encodes = 0
    /\ enlargedUrl = EmptyString /\ bisectExitSize = NoSize
    /\ minSeen = NoSize /\ realAllAbove = TRUE

----------------------------------------------------------------------------
\* History bookkeeping of one encode that measured size sz on canvas w x h

Seen(sz) == IF minSeen = NoSize THEN sz ELSE Min2(minSeen, sz)

StillAllAbove(w, h, sz) == realAllAbove /\ (w = 0 \/ h = 0 \/ sz > maxSize)

----------------------------------------------------------------------------
\* processImage, lines 57-69: the guards, then setLoading(true), setError(null)
\* and the start of the decode (img.src = preview).  The button that calls it
\* is disabled while !image || loading (line 354).  One invocation is followed.
ProcessStart ==
    /\ pc = "idle"
    /\ image # 0 /\ ~loading
    /\ \/ /\ NotUploaded(image, preview)
          /\ error' = "upload_first"
          /\ pc' = "done"
          /\ UNCHANGED <<loading, decodes, imgSrc>>
       \/ /\ ~NotUploaded(image, preview)
          /\ RangeInvalid(minSize, maxSize)
          /\ error' = "invalid_range"
          /\ pc' = "done"
          /\ UNCHANGED <<loading, decodes, imgSrc>>
       \/ /\ ~NotUploaded(image, preview)
          /\ ~RangeInvalid(minSize, maxSize)
          /\ loading' = TRUE
          /\ error' = "none"
          /\ imgSrc' = preview
          /\ decodes' = decodes + 1
          /\ pc' = "decoding"
    /\ UNCHANGED <<image, preview, minSize, maxSize, processedImage, processedSize>>
    /\ UNCHANGED <<reading, uiEvents>>
    /\ UNCHANGED <<envVars, localVars, encodes, enlargedUrl, bisectExitSize,
                   minSeen, realAllAbove>>

\* Lines 76-102: img.onload resolves the await (it never fires for data that
\* is not an image); the locals are set up and the baseline is encoded at
\* native dimensions, quality 1.0.
ImgOnload ==
    /\ pc = "decoding"
    /\ UNCHANGED <<reading, uiEvents, imgSrc>>
    /\ decodable
    /\ width' = imgW /\ height' = imgH
    /\ quality' = QPerMille(900)
    /\ currentSize' = 0
    /\ dataUrl' = EmptyString
    /\ attempts' = 0
    /\ canvasW' = imgW /\ canvasH' = imgH
    /\ \E n \in EncodedBytes(imgW, imgH, Q1) :
          /\ originalDataUrl' = Url(imgSrc, imgW, imgH, Q1, n)
          /\ originalSize' = calculateImageSize(originalDataUrl')
          /\ minSeen' = Seen(originalSize')
          /\ realAllAbove' = StillAllAbove(imgW, imgH, originalSize')
    /\ upScale' = Scale(10, 0)
    /\ encodes' = encodes + 1
    /\ pc' = "stage1"
    /\ UNCHANGED <<uiVars, envVars, minQuality, maxQuality, downScale,
                   decodes, enlargedUrl, bisectExitSize>>

\* Lines 108-120: one pass of the enlargement loop.
EnlargeStep ==
    /\ pc = "stage1"
    /\ UNCHANGED <<reading, uiEvents, imgSrc>>
    /\ NeedsEnlarge(originalSize, minSize)
    /\ EnlargeContinue(currentSize, minSize, upScale)
    /\ upScale' = ScaleUp(upScale)
    /\ canvasW' = ScaledDim(width, upScale')
    /\ canvasH' = ScaledDim(height, upScale')
    /\ \E n \in EncodedBytes(canvasW', canvasH', Q1) :
          /\ dataUrl' = Url(imgSrc, canvasW', canvasH', Q1, n)
          /\ currentSize' = calculateImageSize(dataUrl')
          /\ minSeen' = Seen(currentSize')
          /\ realAllAbove' = StillAllAbove(canvasW', canvasH', currentSize')
          /\ enlargedUrl' = IF currentSize' >= minSize THEN dataUrl' ELSE enlargedUrl
    /\ encodes' = encodes + 1
    /\ UNCHANGED <<uiVars, envVars, pc, width, height, quality, minQuality,
                   maxQuality, attempts, originalDataUrl, originalSize, downScale,
                   decodes, bisectExitSize>>

\* Lines 105 and 122-132: after the loop (or without it), the early return
\* that publishes the last enlargement when it is still below minSize.
Stage1Exit ==
    /\ pc = "stage1"
    /\ UNCHANGED <<reading, uiEvents, imgSrc>>
    /\ \/ /\ ~NeedsEnlarge(originalSize, minSize)
          /\ pc' = "stage2"
          /\ UNCHANGED <<processedImage, processedSize, error, loading>>
       \/ /\ NeedsEnlarge(originalSize, minSize)
          /\ ~EnlargeContinue(currentSize, minSize, upScale)
          /\ currentSize < minSize
          /\ processedImage' = dataUrl
          /\ processedSize' = currentSize
          /\ error' = "below_min"
          /\ loading' = FALSE
          /\ pc' = "done"
       \/ /\ NeedsEnlarge(originalSize, minSize)
          /\ ~EnlargeContinue(currentSize, minSize, upScale)
          /\ ~(currentSize < minSize)
          /\ pc' = "stage2"
          /\ UNCHANGED <<processedImage, processedSize, error, loading>>
    /\ UNCHANGED <<image, preview, minSize, maxSize>>
    /\ UNCHANGED <<envVars, localVars, histVars>>

\* Lines 135-143 and 210-214: the branch on the baseline size.
Stage2Branch ==
    /\ pc = "stage2"
    /\ UNCHANGED <<reading, uiEvents, imgSrc>>
    /\ \/ /\ NeedsReduce(originalSize, maxSize)
          /\ canvasW' = width /\ canvasH' = height
          /\ minQuality' = QPerMille(1)
          /\ maxQuality' = 100 * QScale
          /\ quality' = QPerMille(700)
          /\ pc' = "bisect"
          /\ UNCHANGED <<dataUrl, currentSize>>
       \/ /\ ~NeedsReduce(originalSize, maxSize)
          /\ dataUrl' = originalDataUrl
          /\ currentSize' = WithinRangeSize(originalSize, currentSize)
          /\ pc' = "publish"
          /\ UNCHANGED <<canvasW, canvasH, minQuality, maxQuality, quality>>
    /\ UNCHANGED <<uiVars, envVars, width, height, attempts, originalDataUrl,
                   originalSize, upScale, downScale, histVars>>

\* Lines 145-185: one iteration of the quality search.
BisectStep ==
    /\ pc = "bisect"
    /\ UNCHANGED <<reading, uiEvents, imgSrc>>
    /\ BisectContinue(attempts)
    /\ attempts' = attempts + 1
    /\ \E n \in EncodedBytes(canvasW, canvasH, quality) :
          /\ dataUrl' = Url(imgSrc, canvasW, canvasH, quality, n)
          /\ currentSize' = calculateImageSize(dataUrl')
          /\ minSeen' = Seen(currentSize')
          /\ realAllAbove' = StillAllAbove(canvasW, canvasH, currentSize')
    /\ encodes' = encodes + 1
    /\ \/ /\ InRange(currentSize', minSize, maxSize)
          /\ pc' = "afterBisect"
          /\ bisectExitSize' = currentSize'
          /\ UNCHANGED <<width, height, canvasW, canvasH, quality, minQuality,
                         maxQuality>>
       \/ /\ ~InRange(currentSize', minSize, maxSize)
          /\ LET big == currentSize' > maxSize
                 small == ~big /\ currentSize' < minSize
                 lo1 == LowAfter(small, quality, minQuality)
                 hi1 == HighAfter(big, quality, maxQuality)
                 q1 == QualityAfter(big, small, quality, minQuality, maxQuality)
                 stuck == Stuck(attempts', currentSize', maxSize)
             IN /\ minQuality' = IF stuck THEN QPerMille(10) ELSE lo1
                /\ maxQuality' = IF stuck THEN QPerMille(700) ELSE hi1
                /\ quality' = IF stuck THEN QPerMille(300) ELSE q1
                /\ width' = IF stuck THEN ReducedDim(width) ELSE width
                /\ height' = IF stuck THEN ReducedDim(height) ELSE height
                /\ canvasW' = IF stuck THEN width' ELSE canvasW
                /\ canvasH' = IF stuck THEN height' ELSE canvasH
          /\ pc' = "bisect"
          /\ UNCHANGED bisectExitSize
    /\ UNCHANGED <<uiVars, envVars, originalDataUrl, originalSize, upScale,
                   downScale, decodes, enlargedUrl>>

\* Line 145 false: the iteration cap ends the loop.
BisectExit ==
    /\ pc = "bisect"
    /\ UNCHANGED <<reading, uiEvents, imgSrc>>
    /\ ~BisectContinue(attempts)
    /\ pc' = "afterBisect"
    /\ bisectExitSize' = currentSize
    /\ UNCHANGED <<uiVars, envVars, localVars, decodes, encodes, enlargedUrl,
                   minSeen, realAllAbove>>

\* Lines 188-189: forced shrink is entered when the size is still above maxSize.
ShrinkEnter ==
    /\ pc = "afterBisect"
    /\ UNCHANGED <<reading, uiEvents, imgSrc>>
    /\ \/ /\ currentSize > maxSize
          /\ downScale' = Scale(9, 0)
          /\ pc' = "shrink"
       \/ /\ ~(currentSize > maxSize)
          /\ pc' = "publish"
          /\ UNCHANGED downScale
    /\ UNCHANGED <<uiVars, envVars, width, height, canvasW, canvasH, quality,
                   minQuality, maxQuality, currentSize, dataUrl, attempts,
                   originalDataUrl, originalSize, upScale, histVars>>

\* Lines 190-208: one pass of the forced shrink loop, at quality 0.1.
ShrinkStep ==
    /\ pc = "shrink"
    /\ UNCHANGED <<reading, uiEvents, imgSrc>>
    /\ ShrinkContinue(currentSize, maxSize, downScale)
    /\ downScale' = ScaleDown(downScale)
    /\ width' = ScaledDim(imgW, downScale')
    /\ height' = ScaledDim(imgH, downScale')
    /\ canvasW' = width' /\ canvasH' = height'
    /\ \E n \in EncodedBytes(canvasW', canvasH', QPerMille(100)) :
          /\ dataUrl' = Url(imgSrc, canvasW', canvasH', QPerMille(100), n)
          /\ currentSize' = calculateImageSize(dataUrl')
          /\ minSeen' = Seen(currentSize')
          /\ realAllAbove' = StillAllAbove(canvasW', canvasH', currentSize')
    /\ encodes' = encodes + 1
    /\ UNCHANGED <<uiVars, envVars, pc, quality, minQuality, maxQuality, attempts,
                   originalDataUrl, originalSize, upScale, decodes, enlargedUrl,
                   bisectExitSize>>

\* Line 190 false: the forced shrink loop ends.
ShrinkExit ==
    /\ pc = "shrink"
    /\ UNCHANGED <<reading, uiEvents, imgSrc>>
    /\ ~ShrinkContinue(currentSize, maxSize, downScale)
    /\ pc' = "publish"
    /\ UNCHANGED <<uiVars, envVars, localVars, histVars>>

\* Lines 216-237: publish the candidate, the feedback, and setLoading(false).
Publish ==
    /\ pc = "publish"
    /\ UNCHANGED <<reading, uiEvents, imgSrc>>
    /\ processedImage' = dataUrl
    /\ processedSize' = currentSize
    /\ error' = Feedback(currentSize, minSize, maxSize)
    /\ loading' = FALSE
    /\ pc' = "done"
    /\ UNCHANGED <<image, preview, minSize, maxSize>>
    /\ UNCHANGED <<envVars, localVars, histVars>>

Next ==
    \/ ProcessStart
    \/ ImgOnload
    \/ EnlargeStep
    \/ Stage1Exit
    \/ Stage2Branch
    \/ BisectStep
    \/ BisectExit
    \/ ShrinkEnter
    \/ ShrinkStep
    \/ ShrinkExit
    \/ Publish

Spec == Init /\ [][Next]_vars

----------------------------------------------------------------------------
\* The other handlers.  processImage gives up the thread only at its await
\* (line 76), so they run before it, while it waits for the decode, or after it.

HandlersCanRun == pc \in {"idle", "decoding", "done"}

\* Files the user can pick: two pictures and a file that is not an image.
Files == {1, 2}

NonImageFile == 3

NoFile == 0

\* handleImageUpload, lines 24-48.  The file input is never disabled.
handleImageUpload ==
    /\ HandlersCanRun
    /\ uiEvents < MaxUiEvents
    /\ uiEvents' = uiEvents + 1
    /\ \E f \in Files \cup {NonImageFile, NoFile} :
          \/ /\ f = NoFile
             /\ error' = "none"
             /\ UNCHANGED <<image, reading>>
          \/ /\ f = NonImageFile
             /\ error' = "not_image"
             /\ UNCHANGED <<image, reading>>
          \/ /\ f \in Files
             /\ f \notin reading
             /\ error' = "none"
             /\ image' = f
             /\ reading' = reading \cup {f}
    /\ UNCHANGED <<preview, minSize, maxSize, processedImage, processedSize, loading>>
    /\ UNCHANGED <<envVars, pc, imgSrc, localVars, histVars>>

\* reader.onload, lines 39-45.
readerOnload ==
    /\ HandlersCanRun
    /\ UNCHANGED uiEvents
    /\ \E f \in reading :
          /\ preview' = f
          /\ reading' = reading \ {f}
    /\ processedImage' = NullUrl
    /\ processedSize' = NoSize
    /\ UNCHANGED <<image, minSize, maxSize, loading, error>>
    /\ UNCHANGED <<envVars, pc, imgSrc, localVars, histVars>>

\* resetForm, lines 240-249.  The Reset button is never disabled.
resetForm ==
    /\ HandlersCanRun
    /\ uiEvents < MaxUiEvents
    /\ uiEvents' = uiEvents + 1
    /\ image' = 0
    /\ preview' = 0
    /\ processedImage' = NullUrl
    /\ processedSize' = NoSize
    /\ error' = "none"
    /\ UNCHANGED <<minSize, maxSize, loading>>
    /\ UNCHANGED <<envVars, reading, pc, imgSrc, localVars, histVars>>

NextUI ==
    \/ Next
    \/ handleImageUpload
    \/ readerOnload
    \/ resetForm

\* The invocation starts from a 10 x 10 picture and no earlier result.
InitUI == Init /\ imgW = 10 /\ processedImage = NullUrl

SpecUI == InitUI /\ [][NextUI]_vars

----------------------------------------------------------------------------
\* Properties

\* processImage has run the search to its end (valid range, image decoded).
SearchDone == pc = "done" /\ decodes = 1

\* C1: when the baseline encoding (native dimensions, quality 1.0) measures
\* within [minSize, maxSize], processImage publishes exactly that encoding
\* and its size, reports no error, and has made no encode call but the
\* baseline probe.
C1_BaselineWithinRange ==
    (SearchDone /\ minSize <= originalSize /\ originalSize <= maxSize)
        => /\ processedImage = originalDataUrl
           /\ processedSize = originalSize
           /\ error = "none"
           /\ encodes = 1
           /\ ~loading

C1_Witness ==
    /\ SearchDone
    /\ minSize <= originalSize /\ originalSize <= maxSize
    /\ processedImage = originalDataUrl
    /\ processedImage.q = Q1 /\ processedImage.w = imgW
    /\ encodes = 1

\* C2: an invocation with an uploaded image (file and preview present) and
\* minSize >= maxSize ends at once with the invalid-range error, with no
\* decode and no encode made, and leaves loading, processedImage and
\* processedSize as they were.
C2_InvalidRange ==
    [][(pc = "idle" /\ image # 0 /\ preview # 0 /\ minSize >= maxSize)
          => /\ pc' = "done"
             /\ error' = "invalid_range"
             /\ decodes' = 0 /\ encodes' = 0
             /\ loading' = loading
             /\ processedImage' = processedImage
             /\ processedSize' = processedSize]_vars

C2_Witness ==
    /\ pc = "done"
    /\ minSize >= maxSize
    /\ error = "invalid_range"
    /\ processedImage # NullUrl
    /\ decodes = 0 /\ encodes = 0

\* C3: for a decodable image and minSize < maxSize, a finished processImage
\* has published an encoded image that is not empty, with its size, and has
\* not ended in the processing error.
C3_PublishesNonEmptyImage ==
    SearchDone
        => /\ processedImage.n > 0
           /\ processedSize # NoSize
           /\ error # "processing"

\* C4: on every published result the error message is absent exactly when
\* minSize <= processedSize <= maxSize, the above-maximum message exactly
\* when processedSize > maxSize, the below-minimum message exactly when
\* processedSize < minSize.
C4_FeedbackMatchesSize ==
    SearchDone
        => /\ (error = "none") <=> (minSize <= processedSize /\ processedSize <= maxSize)
           /\ (error = "above_max") <=> (processedSize > maxSize)
           /\ (error = "below_min") <=> (processedSize < minSize)

\* forced shrink overshoots: a non-empty candidate below minSize is published
C4_Witness ==
    /\ SearchDone
    /\ originalSize > maxSize
    /\ downScale.t < 9
    /\ processedImage.n > 0
    /\ processedSize < minSize
    /\ error = "below_min"

\* C5: when the baseline is below minSize and an enlargement step produced a
\* candidate of at least minSize, that enlarged candidate is what
\* processImage publishes, with processedSize >= minSize.
C5_EnlargedCandidatePublished ==
    (SearchDone /\ originalSize < minSize /\ enlargedUrl # EmptyString)
        => /\ processedImage = enlargedUrl
           /\ processedSize >= minSize

\* C6: when the baseline is below minSize and no enlargement reaches it, the
\* enlargement makes at most 10 encodes, never draws a canvas larger than 3.0
\* times the image, and ends publishing the candidate of the largest scale
\* with the below-minimum message.
C6_EnlargementBounded ==
    /\ canvasW <= 3 * imgW /\ canvasH <= 3 * imgH
    /\ upScale.t <= 30
    /\ (pc = "stage1" => encodes = 1 + (upScale.t - 10) \div 2)
    /\ (SearchDone /\ originalSize < minSize /\ enlargedUrl = EmptyString)
          => /\ encodes <= 1 + 10
             /\ processedImage.w = 3 * imgW /\ processedImage.h = 3 * imgH
             /\ processedImage.q = Q1
             /\ processedSize < minSize
             /\ error = "below_min"
             /\ ~loading

C6_Witness ==
    /\ SearchDone
    /\ originalSize < minSize
    /\ enlargedUrl = EmptyString
    /\ encodes = 11
    /\ processedImage.w = 3 * imgW
    /\ error = "below_min"

\* Some quality in (0, 1] gives, at native dimensions, a size within range.
CurveHasWindow ==
    /\ curve # NoCurve
    /\ curve.t1 < curve.t2 /\ 0 < curve.t2 /\ curve.t1 <= Q1
    /\ minSize <= calculateImageSize(Url(1, imgW, imgH, curve.t1, 1535))
    /\ calculateImageSize(Url(1, imgW, imgH, curve.t1, 1535)) <= maxSize

\* C7: for a baseline above maxSize, when the size is non-decreasing in the
\* quality at native dimensions and some quality in (0, 1] gives a size
\* within range, the published candidate is within range and no error shows.
\* (Stated for the runs that publish an image with pixels, so that a
\* violation is one of the quality search itself.)
C7_MonotoneSearchConverges ==
    (SearchDone /\ originalSize > maxSize /\ CurveHasWindow /\ processedImage.n > 0)
        => /\ minSize <= processedSize /\ processedSize <= maxSize
           /\ error = "none"

\* C8: when every candidate encoded from a canvas with pixels measures above
\* maxSize, down to the one at quality 0.1 and 10% of the original
\* dimensions, processImage publishes a candidate with the above-maximum
\* status, the smallest of the candidates encoded.
C8_AboveMaxBestCandidate ==
    (SearchDone /\ originalSize > maxSize /\ realAllAbove /\ downScale.t <= 1)
        => /\ error = "above_max"
           /\ processedImage.n > 0
           /\ processedSize = minSeen

\* C9: on every path that publishes, processedSize is calculateImageSize of
\* the published processedImage.
C9_SizeMeasuredFromPublishedBytes ==
    /\ processedImage # NullUrl => processedSize = calculateImageSize(processedImage)
    /\ pc = "publish" => currentSize = calculateImageSize(dataUrl)

\* the baseline published after an enlargement that reached minSize
C9_Witness ==
    /\ SearchDone
    /\ originalSize < minSize
    /\ enlargedUrl # EmptyString
    /\ calculateImageSize(enlargedUrl) # originalSize
    /\ processedImage = originalDataUrl

\* C10: the quality search makes at most 20 encode iterations, each one
\* counted by attempts, then leaves the loop; forced shrink follows exactly
\* when the last size measured by the search is above maxSize.
C10_SearchBounded ==
    /\ attempts <= 20
    /\ (pc \in {"bisect", "afterBisect"} => encodes = 1 + attempts)
    /\ (pc = "bisect" /\ attempts = 20 => ~ENABLED BisectStep)
    /\ (pc = "shrink" => bisectExitSize > maxSize)
    /\ (SearchDone /\ originalSize > maxSize /\ bisectExitSize > maxSize)
          => downScale.t < 9
    /\ (SearchDone /\ originalSize > maxSize /\ bisectExitSize <= maxSize)
          => encodes = 1 + attempts

C10_Witness ==
    /\ pc = "shrink"
    /\ attempts = 20
    /\ encodes = 21
    /\ bisectExitSize > maxSize

\* C11 as stated: from one iteration of the quality search to the next,
\* maxQuality - minQuality never increases.
C11_IntervalNeverWidens ==
    [][(pc = "bisect" /\ pc' = "bisect")
          => maxQuality' - minQuality' <= maxQuality - minQuality]_vars

\* C11 as amended: the interval never widens in an iteration that does not
\* end with the stuck-detection reset; the reset sets it to [0.01, 0.7].
C11_IntervalNarrowsBetweenResets ==
    [][(pc = "bisect" /\ pc' = "bisect")
          => IF attempts' > 10 /\ currentSize' > maxSize
             THEN minQuality' = QPerMille(10) /\ maxQuality' = QPerMille(700)
             ELSE /\ maxQuality' - minQuality' <= maxQuality - minQuality
                  /\ minQuality' >= minQuality /\ maxQuality' <= maxQuality
                  /\ minQuality' <= quality' /\ quality' <= maxQuality']_vars

\* after a reset, an iteration has narrowed the interval from below
C11_Witness ==
    /\ pc = "bisect"
    /\ attempts = 12
    /\ minQuality = QPerMille(300)
    /\ maxQuality = QPerMille(700)
    /\ quality = QPerMille(500)

\* C12: every encode call is made with a quality q, 0 < q <= 1.
C12_QualityInUnitInterval ==
    dataUrl # EmptyString => (0 < dataUrl.q /\ dataUrl.q <= Q1)

\* Math.round(n / 1024): the KB of n bytes.
RoundKB(n) == (2 * n + 1024) \div 2048

\* C13 (its progress part): while the preview that cannot be decoded is
\* awaited, processImage can still take a step towards finishing with an
\* error and loading = false.
C13_UndecodableFinishes ==
    (pc = "decoding" /\ ~decodable) => ENABLED Next

\* C14: the size measured for an encoded buffer of n >= 1 bytes is
\* round(n / 1024).
C14_SizeIsRoundedByteLength ==
    /\ (originalDataUrl.n >= 1 => originalSize = RoundKB(originalDataUrl.n))
    /\ (dataUrl.n >= 1 => currentSize = RoundKB(dataUrl.n))

\* C15: an iteration of the quality search that measures a size within
\* [minSize, maxSize] ends the loop; no encode follows it (no further
\* iteration, no forced shrink) and its candidate is the one published.
C15_InRangeStopsSearch ==
    /\ [][(pc = "bisect" /\ encodes' = encodes + 1
             /\ minSize <= currentSize' /\ currentSize' <= maxSize)
            => pc' = "afterBisect"]_vars
    /\ [][(pc \in {"afterBisect", "publish"}
             /\ minSize <= bisectExitSize /\ bisectExitSize <= maxSize)
            => /\ encodes' = encodes
               /\ dataUrl' = dataUrl /\ currentSize' = currentSize
               /\ canvasW' = canvasW /\ canvasH' = canvasH
               /\ (pc' = "done" => processedImage' = dataUrl
                                     /\ processedSize' = bisectExitSize)]_vars

C15_Witness ==
    /\ SearchDone
    /\ originalSize > maxSize
    /\ attempts = 3
    /\ encodes = 4
    /\ minSize <= bisectExitSize /\ bisectExitSize <= maxSize
    /\ processedImage = dataUrl
    /\ processedImage.q = quality

\* C16: forced shrink runs only after a last search size above maxSize; each
\* step encodes at quality 0.1 the canvas floor(original x s), s being 0.9
\* less 0.1 per step; there are at most 8 encodes and no scale below 0.1.
C16_ForcedShrinkBounded ==
    /\ (pc = "shrink" => bisectExitSize > maxSize)
    /\ (pc = "shrink" /\ downScale.t < 9)
          => /\ dataUrl.q = QPerMille(100)
             /\ dataUrl.w = ScaledDim(imgW, downScale)
             /\ dataUrl.h = ScaledDim(imgH, downScale)
    /\ 9 - downScale.t <= 8
    /\ downScale.t >= 1

\* C17: in the quality search the dimensions change only at the end of an
\* iteration numbered 11 or more whose size is above maxSize, to
\* floor(0.9 x current), together with the reset of minQuality, maxQuality
\* and quality to 0.01, 0.7, 0.3; iterations 1 to 10 encode at the native
\* dimensions.
C17_ReductionOnlyWhenStuck ==
    /\ [][(pc = "bisect" /\ (width' # width \/ height' # height
                              \/ canvasW' # canvasW \/ canvasH' # canvasH))
            => /\ attempts' >= 11
               /\ currentSize' > maxSize
               /\ width' = (9 * width) \div 10
               /\ height' = (9 * height) \div 10
               /\ canvasW' = width' /\ canvasH' = height'
               /\ minQuality' = QPerMille(10)
               /\ maxQuality' = QPerMille(700)
               /\ quality' = QPerMille(300)]_vars
    /\ [][(pc = "bisect" /\ encodes' = encodes + 1 /\ attempts' <= 10)
            => /\ dataUrl'.w = imgW /\ dataUrl'.h = imgH
               /\ width' = imgW /\ height' = imgH]_vars

C17_Witness ==
    /\ pc = "bisect"
    /\ attempts = 11
    /\ width = 9 /\ canvasW = 9
    /\ dataUrl.w = 10
    /\ quality = QPerMille(300)

\* C18: under any interleaving of upload, reset and process, a published
\* result was computed from the picture currently held as the preview.
C18_ResultBelongsToCurrentImage ==
    processedImage # NullUrl => processedImage.img = preview

\* C19: for a source image of width and height >= 1, every encode is made
\* on a canvas of width and height >= 1.
C19_CanvasHasPixels ==
    (imgW >= 1 /\ imgH >= 1 /\ dataUrl # EmptyString)
        => (dataUrl.w >= 1 /\ dataUrl.h >= 1)

====
